---- MODULE Spec2Model ----
(***************************************************************************)
(* Model of mcfit/cosmology.py: the cosmology wrappers P2xi, xi2P,         *)
(* TophatVar, GaussVar, C2w and w2C around the mcfit / Hankel transform    *)
(* engine, and the execution of the module's top-level statements.         *)
(*                                                                         *)
(* Numbers are kept exact.  A multiplicative factor (prefac, postfac,      *)
(* phase) is the monomial  (re + im*i) * 2^(two2/2) * pi^(pi2/2) * x^xe    *)
(* where x is the instance's own grid.  A grid point is 2^m * pi^p.        *)
(* The tilt q is kept in halves (q2 = 2*q), so q = 1.5 is q2 = 3.          *)
(***************************************************************************)
EXTENDS Integers, Sequences, FiniteSets, TLC

VARIABLES self, args, locals, err, baseInits, baseCalls, callArgs, ret, op, peer,
          attempts, callerNs

vars == <<self, args, locals, err, baseInits, baseCalls, callArgs, ret, op, peer,
          attempts, callerNs>>

wrapperVars ==
    <<self, args, locals, err, baseInits, baseCalls, callArgs, ret, op, peer>>

loaderVars == <<attempts, callerNs>>

-----------------------------------------------------------------------------
(* Bounds of the input sets *)

MaxL == 7

MaxN == 1

MaxNu == 1

MaxDeriv == 1

MaxLen == 2

MaxExp == 1

MaxShift == 1

-----------------------------------------------------------------------------
(* Exact arithmetic on factors *)

Factor(re, im, two2, pi2, xe) ==
    [re |-> re, im |-> im, two2 |-> two2, pi2 |-> pi2, xe |-> xe]

One == Factor(1, 0, 0, 0, 0)

NegOne == Factor(-1, 0, 0, 0, 0)

ImagUnit == Factor(0, 1, 0, 0, 0)

Two == Factor(1, 0, 2, 0, 0)

pi == Factor(1, 0, 0, 2, 0)

FMul(a, b) ==
    Factor(a.re * b.re - a.im * b.im, a.re * b.im + a.im * b.re,
           a.two2 + b.two2, a.pi2 + b.pi2, a.xe + b.xe)

FDiv(a, b) ==
    LET norm == b.re * b.re + b.im * b.im
    IN  Factor((a.re * b.re + a.im * b.im) \div norm,
               (a.im * b.re - a.re * b.im) \div norm,
               a.two2 - b.two2, a.pi2 - b.pi2, a.xe - b.xe)

(* a ** (e2/2) for a positive real monomial a *)
FPow(a, e2) ==
    Factor(1, 0, (a.two2 * e2) \div 2, (a.pi2 * e2) \div 2, (a.xe * e2) \div 2)

(* self.x ** e *)
XPow(e) == Factor(1, 0, 0, 0, e)

(* l & b for a single-bit mask b = 2^k *)
BitAnd(l, b) == ((l \div b) % 2) * b

-----------------------------------------------------------------------------
(* Grids *)

Pt(m, p) == [m |-> m, p |-> p]

Div2(g) == [i \in 1..Len(g) |-> Pt(g[i].m - 1, g[i].p)]

DivPi(g) == [i \in 1..Len(g) |-> Pt(g[i].m, g[i].p - 1)]

Mul2(g) == [i \in 1..Len(g) |-> Pt(g[i].m + 1, g[i].p)]

MulPi(g) == [i \in 1..Len(g) |-> Pt(g[i].m, g[i].p + 1)]

(* ordered log-spaced input grids of positive reals *)
Grids ==
    { g \in UNION { [1..n -> {Pt(m, 0) : m \in 0..MaxExp}] : n \in 1..MaxLen } :
        \A i \in 1..(Len(g) - 1) : g[i].m < g[i + 1].m }

Orders == 0..MaxL

NoneN == <<>>

OptN == {NoneN} \cup { <<n>> : n \in (0 - MaxN)..MaxN }

Derivs == 0..MaxDeriv

DefaultQ2 == 3

Tilts == {DefaultQ2 - 1, DefaultQ2}

Kwargs(names) == UNION { [S -> BOOLEAN] : S \in SUBSET names }

CtorKw == Kwargs({"lowring"})

CallKw == Kwargs({"extrap"})

Arrays == {"F1", "F2"}

-----------------------------------------------------------------------------
(* The collaborators this file uses but does not define: the kernels       *)
(* module and the mcfit / Hankel base transforms.                          *)

Mellin_SphericalBesselJ(l, deriv) ==
    [name |-> "SphericalBesselJ", params |-> <<l, deriv>>]

Mellin_TophatSq(dim, deriv) == [name |-> "TophatSq", params |-> <<dim, deriv>>]

Mellin_GaussSq(deriv) == [name |-> "GaussSq", params |-> <<deriv>>]

Mellin_BesselJ(nu, deriv) == [name |-> "BesselJ", params |-> <<nu, deriv>>]

TiltLo == 1

TiltHi == 5

(* what the engine decides on its own: the product x*y = 2^shift it settles
   on for the conjugate grid, and, for the 2D base, whether it records its
   order as an attribute *)
Engines == [shift : 0..MaxShift]

HankelEngines == [shift : 0..MaxShift, storesNu : BOOLEAN]

SetAttr(s, name, v) ==
    [a \in (DOMAIN s \ {name}) \cup {name} |-> IF a = name THEN v ELSE s[a]]

(* the conjugate grid: same length, ordered, y[i] = 2^shift / x[N+1-i] *)
ConjugateGrid(x, shift) ==
    [i \in 1..Len(x) |->
        Pt(shift - x[Len(x) + 1 - i].m, 0 - x[Len(x) + 1 - i].p)]

BaseAttrs == {"x", "y", "MK", "q2", "kwargs", "prefac", "postfac"}

(* the base constructor: rejects a tilt outside its valid range; otherwise
   sets the grids, the kernel, the tilt, the options and unit prefac and
   postfac on the instance.  seen is what it was invoked with. *)
mcfit_init(s, x, MK, tilt2, kwargs, eng) ==
    LET seen == [fn |-> "mcfit.__init__", x |-> x, MK |-> MK, tilt2 |-> tilt2,
                 kwargs |-> kwargs]
    IN  IF tilt2 \notin TiltLo..TiltHi
        THEN [raised |-> TRUE, error |-> "TiltError", self |-> s, seen |-> seen]
        ELSE [raised |-> FALSE, error |-> "none", seen |-> seen,
              self |-> [a \in (DOMAIN s \ BaseAttrs) \cup BaseAttrs |->
                           CASE a = "x" -> x
                             [] a = "y" -> ConjugateGrid(x, eng.shift)
                             [] a = "MK" -> MK
                             [] a = "q2" -> tilt2
                             [] a = "kwargs" -> kwargs
                             [] a = "prefac" -> One
                             [] a = "postfac" -> One
                             [] OTHER -> s[a]]]

Hankel_init(s, x, nu, deriv, q2, kwargs, eng) ==
    LET b == mcfit_init(IF eng.storesNu THEN SetAttr(s, "nu", nu) ELSE s,
                        x, Mellin_BesselJ(nu, deriv), q2, kwargs, eng)
    IN  [b EXCEPT !.seen = [fn |-> "Hankel.__init__", x |-> x, nu |-> nu,
                            deriv |-> deriv, tilt2 |-> q2, kwargs |-> kwargs]]

(* the base call operator: returns the conjugate grid and the transformed
   array, and leaves the instance alone.  seen is what it was invoked with. *)
mcfit_call(s, F, kwargs) ==
    [self |-> s,
     seen |-> [F |-> F, kwargs |-> kwargs],
     ret |-> <<s.y, [of |-> F, kwargs |-> kwargs, postfac |-> s.postfac]>>]

-----
(* The wrappers' constructors.  Each yields the instance, the error that
   left the constructor ("none" when it returned), the base constructor
   invocations it made, and its local variables. *)

Built(s, e, inits, loc) == [self |-> s, err |-> e, inits |-> inits, locals |-> loc]

(* variant: the sign is taken from bit 2 of l instead of bit 1 *)
P2xi_phase_bit4(l) ==
    FMul(IF BitAnd(l, 4) # 0 THEN NegOne ELSE One,
         IF BitAnd(l, 1) # 0 THEN ImagUnit ELSE One)

P2xi_phase(l) ==
    FMul(IF BitAnd(l, 2) # 0 THEN NegOne ELSE One,
         IF BitAnd(l, 1) # 0 THEN ImagUnit ELSE One)

(* variant: "if not n", which also takes n = 0 for an omitted n *)
P2xi_n_is_falsy(n) == n = NoneN \/ n = <<0>>

(* n is None *)
P2xi_n_is_None(n) == n = NoneN

(* variant: the tilt is passed on without n *)
P2xi_tilt_without_n(q2, n) == q2

(* q+n, in halves *)
P2xi_tilt(q2, n) == q2 + 2 * n

(* variant: a rejected tilt is caught and the base constructor retried with
   the unadjusted q *)
P2xi_init_retrying(k, l, n, deriv, q2, kwargs, eng) ==
    LET s0 == [kind |-> "P2xi", l |-> l]
        MK == Mellin_SphericalBesselJ(l, deriv)
        phase == IF P2xi_n_is_None(n) THEN P2xi_phase(l) ELSE One
        n1 == IF P2xi_n_is_None(n) THEN 0 ELSE n[1]
        b1 == mcfit_init(s0, k, MK, P2xi_tilt(q2, n1), kwargs, eng)
        b2 == mcfit_init(s0, k, MK, q2, kwargs, eng)
        b == IF b1.raised THEN b2 ELSE b1
        inits == IF b1.raised THEN <<b1.seen, b2.seen>> ELSE <<b1.seen>>
        loc == [MK |-> MK, phase |-> phase, n |-> n1]
        s1 == SetAttr(b.self, "prefac",
                      FMul(b.self.prefac, FDiv(XPow(3 + n1), FPow(FMul(Two, pi), 3))))
        s2 == SetAttr(s1, "postfac", FMul(s1.postfac, phase))
    IN  IF b.raised THEN Built(b.self, b.error, inits, loc)
        ELSE Built(s2, "none", inits, loc)

P2xi_init(k, l, n, deriv, q2, kwargs, eng) ==
    LET s0 == [kind |-> "P2xi", l |-> l]
        MK == Mellin_SphericalBesselJ(l, deriv)
        phase == IF P2xi_n_is_None(n) THEN P2xi_phase(l) ELSE One
        n1 == IF P2xi_n_is_None(n) THEN 0 ELSE n[1]
        b == mcfit_init(s0, k, MK, P2xi_tilt(q2, n1), kwargs, eng)
        inits == <<b.seen>>
        loc == [MK |-> MK, phase |-> phase, n |-> n1]
        s1 == SetAttr(b.self, "prefac",
                      FMul(b.self.prefac, FDiv(XPow(3 + n1), FPow(FMul(Two, pi), 3))))
        s2 == SetAttr(s1, "postfac", FMul(s1.postfac, phase))
    IN  IF b.raised THEN Built(b.self, b.error, inits, loc)
        ELSE Built(s2, "none", inits, loc)

xi2P_phase(l) ==
    FMul(IF BitAnd(l, 2) # 0 THEN NegOne ELSE One,
         IF BitAnd(l, 1) # 0 THEN ImagUnit ELSE One)

(* variant: multiplies by the phase instead of dividing by it *)
xi2P_postfac_times_phase(phase) == FMul(FPow(FMul(Two, pi), 3), phase)

(* (2*pi)**1.5 / phase *)
xi2P_postfac(phase) == FDiv(FPow(FMul(Two, pi), 3), phase)

xi2P_init(r, l, deriv, q2, kwargs, eng) ==
    LET s0 == [kind |-> "xi2P", l |-> l]
        MK == Mellin_SphericalBesselJ(l, deriv)
        b == mcfit_init(s0, r, MK, q2, kwargs, eng)
        inits == <<b.seen>>
        phase == xi2P_phase(l)
        loc == [MK |-> MK, phase |-> phase]
        s1 == SetAttr(b.self, "prefac", FMul(b.self.prefac, XPow(3)))
        s2 == SetAttr(s1, "postfac", FMul(s1.postfac, xi2P_postfac(phase)))
    IN  IF b.raised THEN Built(b.self, b.error, inits, [MK |-> MK])
        ELSE Built(s2, "none", inits, loc)

TophatVar_init(k, deriv, q2, kwargs, eng) ==
    LET s0 == [kind |-> "TophatVar"]
        MK == Mellin_TophatSq(3, deriv)
        b == mcfit_init(s0, k, MK, q2, kwargs, eng)
        inits == <<b.seen>>
        s1 == SetAttr(b.self, "prefac",
                      FMul(b.self.prefac, FDiv(XPow(3), FMul(Two, FPow(pi, 4)))))
    IN  IF b.raised THEN Built(b.self, b.error, inits, [MK |-> MK])
        ELSE Built(s1, "none", inits, [MK |-> MK])

GaussVar_init(k, deriv, q2, kwargs, eng) ==
    LET s0 == [kind |-> "GaussVar"]
        MK == Mellin_GaussSq(deriv)
        b == mcfit_init(s0, k, MK, q2, kwargs, eng)
        inits == <<b.seen>>
        s1 == SetAttr(b.self, "prefac",
                      FMul(b.self.prefac, FDiv(XPow(3), FMul(Two, FPow(pi, 4)))))
    IN  IF b.raised THEN Built(b.self, b.error, inits, [MK |-> MK])
        ELSE Built(s1, "none", inits, [MK |-> MK])

(* C2w and w2C.  Their class statements name Hankel as the base class; the
   methods are modelled with Hankel being the 2D base transform their
   docstrings refer to.  Whether that name is bound when the class
   statements run is a matter of the module body, modelled by ModuleBody
   and ExecModule below. *)

(* variant: scales y up by 2*pi instead of down *)
C2w_theta_scaled_up(y) == MulPi(Mul2(y))

(* self.y / 2 / pi *)
C2w_theta(y) == DivPi(Div2(y))

(* variant: nu is not passed on, so the base takes its default order 0 *)
C2w_init_default_nu(ell, nu, kwargs, eng) ==
    LET s0 == [kind |-> "C2w"]
        k == DivPi(Div2(ell))
        b == Hankel_init(s0, k, 0, 0, 2, kwargs, eng)
        inits == <<b.seen>>
        s1 == SetAttr(b.self, "postfac", FMul(b.self.postfac, FMul(Two, pi)))
        s2 == SetAttr(s1, "ell", ell)
        s3 == SetAttr(s2, "theta", C2w_theta(s2.y))
    IN  IF b.raised THEN Built(b.self, b.error, inits, [k |-> k])
        ELSE Built(s3, "none", inits, [k |-> k])

C2w_init(ell, nu, kwargs, eng) ==
    LET s0 == [kind |-> "C2w"]
        k == DivPi(Div2(ell))
        b == Hankel_init(s0, k, nu, 0, 2, kwargs, eng)
        inits == <<b.seen>>
        s1 == SetAttr(b.self, "postfac", FMul(b.self.postfac, FMul(Two, pi)))
        s2 == SetAttr(s1, "ell", ell)
        s3 == SetAttr(s2, "theta", C2w_theta(s2.y))
    IN  IF b.raised THEN Built(b.self, b.error, inits, [k |-> k])
        ELSE Built(s3, "none", inits, [k |-> k])

(* self.y * 2 * pi *)
w2C_ell(y) == MulPi(Mul2(y))

w2C_init(theta, nu, kwargs, eng) ==
    LET s0 == [kind |-> "w2C"]
        r == MulPi(Mul2(theta))
        b == Hankel_init(s0, r, nu, 0, 2, kwargs, eng)
        inits == <<b.seen>>
        s1 == SetAttr(b.self, "postfac", FDiv(b.self.postfac, FMul(Two, pi)))
        s2 == SetAttr(s1, "theta", theta)
        s3 == SetAttr(s2, "ell", w2C_ell(s2.y))
    IN  IF b.raised THEN Built(b.self, b.error, inits, [r |-> r])
        ELSE Built(s3, "none", inits, [r |-> r])

-----------------------------------------------------------------------------
(* The call overrides.  Each yields the instance after the call, the value
   returned, and the base calls it made. *)

(* variant: the options are not forwarded to the base call *)
C2w_call_dropping_options(s, C, kwargs) ==
    LET b == mcfit_call(s, C, <<>>)
        r == b.ret[1]
        w == b.ret[2]
        theta == DivPi(Div2(r))
    IN  [self |-> b.self, ret |-> <<theta, w>>,
         calls |-> <<[seen |-> b.seen, ret |-> b.ret]>>]

C2w_call(s, C, kwargs) ==
    LET b == mcfit_call(s, C, kwargs)
        r == b.ret[1]
        w == b.ret[2]
        theta == DivPi(Div2(r))
    IN  [self |-> b.self, ret |-> <<theta, w>>,
         calls |-> <<[seen |-> b.seen, ret |-> b.ret]>>]

(* variant: the call rescales postfac on the instance *)
w2C_call_rescaling(s, w, kwargs) ==
    LET b == mcfit_call(s, w, kwargs)
        k == b.ret[1]
        C == b.ret[2]
        ell == MulPi(Mul2(k))
    IN  [self |-> SetAttr(b.self, "postfac", FDiv(b.self.postfac, FMul(Two, pi))),
         ret |-> <<ell, C>>,
         calls |-> <<[seen |-> b.seen, ret |-> b.ret]>>]

w2C_call(s, w, kwargs) ==
    LET b == mcfit_call(s, w, kwargs)
        k == b.ret[1]
        C == b.ret[2]
        ell == MulPi(Mul2(k))
    IN  [self |-> b.self, ret |-> <<ell, C>>,
         calls |-> <<[seen |-> b.seen, ret |-> b.ret]>>]

-----------------------------------------------------------------------------
(* State of the wrappers: the instance last constructed (self), the
   arguments and locals of its constructor, the error that left the last
   operation, the base constructor / base call invocations the last
   operation made, the arguments and the value of the last call, and a
   second instance (peer) built to go with self. *)

NoInst == [kind |-> "none"]

NoPeer == [self |-> NoInst, args |-> <<>>, locals |-> <<>>, err |-> "none",
           inits |-> <<>>]

InitWrappers ==
    /\ self = NoInst
    /\ args = <<>>
    /\ locals = <<>>
    /\ err = "none"
    /\ baseInits = <<>>
    /\ baseCalls = <<>>
    /\ callArgs = <<>>
    /\ ret = <<>>
    /\ op = "none"
    /\ peer = NoPeer

Construct(name, a, b) ==
    /\ self' = b.self
    /\ args' = a
    /\ locals' = b.locals
    /\ err' = b.err
    /\ baseInits' = b.inits
    /\ baseCalls' = <<>>
    /\ callArgs' = <<>>
    /\ ret' = <<>>
    /\ op' = name
    /\ peer' = NoPeer
    /\ UNCHANGED loaderVars

NewP2xi ==
    /\ op = "none"
    /\ \E k \in Grids, l \in Orders, n \in OptN, deriv \in Derivs, q2 \in Tilts,
          kw \in CtorKw, eng \in Engines :
        Construct("P2xi.__init__",
                  [k |-> k, l |-> l, n |-> n, deriv |-> deriv, q2 |-> q2, kwargs |-> kw],
                  P2xi_init(k, l, n, deriv, q2, kw, eng))

Newxi2P ==
    /\ op = "none"
    /\ \E r \in Grids, l \in Orders, deriv \in Derivs, q2 \in Tilts,
          kw \in CtorKw, eng \in Engines :
        Construct("xi2P.__init__",
                  [r |-> r, l |-> l, deriv |-> deriv, q2 |-> q2, kwargs |-> kw],
                  xi2P_init(r, l, deriv, q2, kw, eng))

NewTophatVar ==
    /\ op = "none"
    /\ \E k \in Grids, deriv \in Derivs, q2 \in Tilts, kw \in CtorKw, eng \in Engines :
        Construct("TophatVar.__init__",
                  [k |-> k, deriv |-> deriv, q2 |-> q2, kwargs |-> kw],
                  TophatVar_init(k, deriv, q2, kw, eng))

NewGaussVar ==
    /\ op = "none"
    /\ \E k \in Grids, deriv \in Derivs, q2 \in Tilts, kw \in CtorKw, eng \in Engines :
        Construct("GaussVar.__init__",
                  [k |-> k, deriv |-> deriv, q2 |-> q2, kwargs |-> kw],
                  GaussVar_init(k, deriv, q2, kw, eng))

NewC2w ==
    /\ op = "none"
    /\ \E ell \in Grids, nu \in 0..MaxNu, kw \in CtorKw, eng \in HankelEngines :
        Construct("C2w.__init__", [ell |-> ell, nu |-> nu, kwargs |-> kw],
                  C2w_init(ell, nu, kw, eng))

Neww2C ==
    /\ op = "none"
    /\ \E theta \in Grids, nu \in 0..MaxNu, kw \in CtorKw, eng \in HankelEngines :
        Construct("w2C.__init__", [theta |-> theta, nu |-> nu, kwargs |-> kw],
                  w2C_init(theta, nu, kw, eng))

Called(name, a, c) ==
    /\ self' = c.self
    /\ callArgs' = a
    /\ ret' = c.ret
    /\ baseCalls' = c.calls
    /\ baseInits' = <<>>
    /\ op' = name
    /\ err' = "none"
    /\ UNCHANGED <<args, locals, peer>>
    /\ UNCHANGED loaderVars

CallC2w ==
    /\ self.kind = "C2w"
    /\ err = "none"
    /\ \E C \in Arrays, kw \in CallKw : Called("C2w.__call__", [F |-> C, kwargs |-> kw], C2w_call(self, C, kw))

Callw2C ==
    /\ self.kind = "w2C"
    /\ err = "none"
    /\ \E w \in Arrays, kw \in CallKw : Called("w2C.__call__", [F |-> w, kwargs |-> kw], w2C_call(self, w, kw))

(* a second instance for the same l, deriv, q and options as self, a P2xi
   built with n omitted: the inverse transform xi2P on self's output grid,
   or P2xi on the same k with n given *)
Paired(a, b) ==
    /\ peer' = [self |-> b.self, args |-> a, locals |-> b.locals, err |-> b.err,
                inits |-> b.inits]
    /\ UNCHANGED <<self, args, locals, err, baseInits, baseCalls, callArgs, ret, op>>
    /\ UNCHANGED loaderVars

Pairxi2P ==
    /\ self.kind = "P2xi"
    /\ err = "none"
    /\ args.n = NoneN
    /\ \E eng \in Engines :
        Paired([r |-> self.y, l |-> args.l, deriv |-> args.deriv, q2 |-> args.q2,
                kwargs |-> args.kwargs],
               xi2P_init(self.y, args.l, args.deriv, args.q2, args.kwargs, eng))

PairP2xi ==
    /\ self.kind = "P2xi"
    /\ err = "none"
    /\ args.n = NoneN
    /\ \E n \in OptN \ {NoneN}, eng \in Engines :
        Paired([k |-> args.k, l |-> args.l, n |-> n, deriv |-> args.deriv,
                q2 |-> args.q2, kwargs |-> args.kwargs],
               P2xi_init(args.k, args.l, n, args.deriv, args.q2, args.kwargs, eng))

-----------------------------------------------------------------------------
(* Execution of the module's top-level statements, in order.  An import
   binds its name; a class statement evaluates its base class names in the
   namespace built so far and binds the class name. *)

Stmt(kind, name, uses) == [kind |-> kind, name |-> name, uses |-> uses]

ModuleBody ==
    << Stmt("import", "mcfit", {}),
       Stmt("import", "kernels", {}),
       Stmt("import", "pi", {}),
       Stmt("assign", "__all__", {}),
       Stmt("class", "P2xi", {"mcfit"}),
       Stmt("class", "xi2P", {"mcfit"}),
       Stmt("class", "TophatVar", {"mcfit"}),
       Stmt("class", "GaussVar", {"mcfit"}),
       Stmt("class", "C2w", {"Hankel"}),
       Stmt("class", "w2C", {"Hankel"}) >>

(* the value line 8 gives __all__ *)
DunderAll == {"P2xi", "xi2P", "TophatVar", "GaussVar"}

RECURSIVE ExecFrom(_, _)
ExecFrom(i, ns) ==
    IF i > Len(ModuleBody) THEN [ns |-> ns, err |-> "none"]
    ELSE IF ~(ModuleBody[i].uses \subseteq ns) THEN [ns |-> ns, err |-> "NameError"]
    ELSE ExecFrom(i + 1, ns \cup {ModuleBody[i].name})

ExecModule == ExecFrom(1, {})

(* from mcfit.cosmology import <name> *)
ImportName(name) ==
    LET m == ExecModule
    IN  IF m.err # "none" THEN [err |-> m.err, binds |-> {}]
        ELSE IF name \notin m.ns THEN [err |-> "ImportError", binds |-> {}]
        ELSE [err |-> "none", binds |-> {name}]

(* from mcfit.cosmology import * *)
ImportStar ==
    LET m == ExecModule
    IN  IF m.err # "none" THEN [err |-> m.err, binds |-> {}]
        ELSE IF ~(DunderAll \subseteq m.ns) THEN [err |-> "AttributeError", binds |-> {}]
        ELSE [err |-> "none", binds |-> DunderAll]

(* the six transform types the module is to expose *)
TransformTypes == {"P2xi", "xi2P", "TophatVar", "GaussVar", "C2w", "w2C"}

Requests == TransformTypes \cup {"*"}

(* attempts: the outcome of each import a caller has made of the module;
   callerNs: the names those imports bound for the caller *)
InitLoader ==
    /\ attempts = [r \in Requests |-> "untried"]
    /\ callerNs = {}

Imported(req, r) ==
    /\ attempts' = [attempts EXCEPT ![req] = IF r.err = "none" THEN "ok" ELSE r.err]
    /\ callerNs' = callerNs \cup r.binds
    /\ UNCHANGED wrapperVars

FromImportName ==
    \E name \in TransformTypes :
        /\ attempts[name] = "untried"
        /\ Imported(name, ImportName(name))

FromImportStar ==
    /\ attempts["*"] = "untried"
    /\ Imported("*", ImportStar)

Init ==
    /\ InitWrappers
    /\ InitLoader

Next ==
    \/ NewP2xi
    \/ Newxi2P
    \/ NewTophatVar
    \/ NewGaussVar
    \/ NewC2w
    \/ Neww2C
    \/ CallC2w
    \/ Callw2C
    \/ Pairxi2P
    \/ PairP2xi

Spec == Init /\ [][Next]_vars

NextLoad ==
    \/ FromImportName
    \/ FromImportStar

SpecLoad == Init /\ [][NextLoad]_vars

-----------------------------------------------------------------------------
(* Properties *)

NegImagUnit == Factor(0, -1, 0, 0, 0)

(* i^l by repeated multiplication *)
RECURSIVE IPow(_)
IPow(l) == IF l = 0 THEN One ELSE FMul(ImagUnit, IPow(l - 1))

(* the cycle +1, +i, -1, -i *)
ICycle(l) == <<One, ImagUnit, NegOne, NegImagUnit>>[(l % 4) + 1]

PeerIs(kind) == peer.self.kind = kind /\ peer.err = "none"

(* C1: for every l in 0..MaxL the phase factor P2xi computes when n is None,
   and the one xi2P computes, is i^l, cycling with period 4 through
   +1, +i, -1, -i from l = 0; the two constructors agree for the same l. *)
C1_PhaseIsIPowL ==
    /\ (op = "P2xi.__init__" /\ args.n = NoneN) =>
          /\ locals.phase = IPow(args.l)
          /\ locals.phase = ICycle(args.l)
    /\ (op = "xi2P.__init__" /\ err = "none") =>
          /\ locals.phase = IPow(args.l)
          /\ locals.phase = ICycle(args.l)
    /\ (op = "P2xi.__init__" /\ args.n = NoneN /\ PeerIs("xi2P")) =>
          peer.locals.phase = locals.phase

C1_Witness ==
    /\ op = "P2xi.__init__"
    /\ args.n = NoneN
    /\ args.l = 7
    /\ locals.phase = NegImagUnit
    /\ PeerIs("xi2P")
    /\ peer.locals.phase = NegImagUnit

(* C2: P2xi constructed with n given passes tilt q+n to the base constructor,
   multiplies postfac by phase 1 whatever l is, and multiplies prefac by
   x^(3+n) / (2 pi)^1.5. *)
C2_GivenN ==
    (op = "P2xi.__init__" /\ args.n # NoneN) =>
        /\ Len(baseInits) = 1
        /\ baseInits[1].tilt2 = args.q2 + 2 * args.n[1]
        /\ locals.phase = One
        /\ err = "none" =>
              /\ self.q2 = args.q2 + 2 * args.n[1]
              /\ self.postfac = One
              /\ self.prefac = Factor(1, 0, -3, -3, 3 + args.n[1])

C2_Witness ==
    /\ op = "P2xi.__init__"
    /\ err = "none"
    /\ args.l = 2
    /\ args.n = <<1>>
    /\ args.q2 = DefaultQ2
    /\ baseInits[1].tilt2 = DefaultQ2 + 2
    /\ self.prefac.xe = 4
    /\ self.postfac = One

(* C3 as stated: once C2w or w2C is constructed, and before any call,
   ell[i] = 2 pi theta[i] at every index i. *)
C3_EllIsTwoPiTheta ==
    (op \in {"C2w.__init__", "w2C.__init__"} /\ err = "none") =>
        /\ Len(self.ell) = Len(self.theta)
        /\ \A i \in 1..Len(self.ell) : self.ell[i] = MulPi(Mul2(self.theta))[i]

(* C3 amended: each derived grid is 2 pi-related to the base's conjugate grid
   y, not to the other attribute.  C2w keeps ell as given, passes ell/(2 pi)
   to the base as x and has theta[i] = y[i]/(2 pi); w2C keeps theta as given,
   passes 2 pi theta as x and has ell[i] = 2 pi y[i]. *)
C3_GridsFollowY ==
    /\ (op = "C2w.__init__" /\ err = "none") =>
          /\ self.ell = args.ell
          /\ MulPi(Mul2(baseInits[1].x)) = args.ell
          /\ Len(self.theta) = Len(self.y)
          /\ \A i \in 1..Len(self.y) : MulPi(Mul2(self.theta))[i] = self.y[i]
    /\ (op = "w2C.__init__" /\ err = "none") =>
          /\ self.theta = args.theta
          /\ DivPi(Div2(baseInits[1].x)) = args.theta
          /\ Len(self.ell) = Len(self.y)
          /\ \A i \in 1..Len(self.y) : DivPi(Div2(self.ell))[i] = self.y[i]

C3_Witness ==
    /\ op = "C2w.__init__"
    /\ err = "none"
    /\ Len(self.ell) = MaxLen
    /\ self.theta # DivPi(Div2(self.ell))
    /\ MulPi(Mul2(self.theta)) = self.y

(* C4 as stated: P2xi and xi2P expose l, and C2w and w2C expose nu, equal to
   the constructor argument, by the wrapper's own constructor and whatever the
   base constructor does. *)
C4_OrderExposed ==
    /\ op \in {"P2xi.__init__", "xi2P.__init__"} =>
          "l" \in DOMAIN self /\ self.l = args.l
    /\ (op \in {"C2w.__init__", "w2C.__init__"} /\ err = "none") =>
          "nu" \in DOMAIN self /\ self.nu = args.nu

(* C4 amended: P2xi and xi2P set l to the argument l themselves, before the
   base constructor runs (so also when it raises).  C2w and w2C assign no nu:
   they pass the argument nu unchanged to the base constructor, and an
   attribute nu exists only if the base sets it, then with that value. *)
C4_OrderPassedOn ==
    /\ op \in {"P2xi.__init__", "xi2P.__init__"} =>
          "l" \in DOMAIN self /\ self.l = args.l
    /\ (op \in {"C2w.__init__", "w2C.__init__"} /\ err = "none") =>
          /\ Len(baseInits) = 1
          /\ baseInits[1].nu = args.nu
          /\ self.MK = Mellin_BesselJ(args.nu, 0)
          /\ "nu" \in DOMAIN self => self.nu = args.nu

C4_Witness ==
    /\ op = "C2w.__init__"
    /\ err = "none"
    /\ args.nu = 1
    /\ "nu" \notin DOMAIN self
    /\ baseInits[1].nu = 1

(* C5: loading the module completes without error and every one of the six
   transform types can be imported from it: each import a caller has made
   succeeded, and bound the name asked for. *)
C5_ModuleLoads ==
    \A r \in Requests :
        attempts[r] # "untried" =>
            /\ attempts[r] = "ok"
            /\ r \in TransformTypes => r \in callerNs

(* C6: C2w.__call__(C, **kwargs) makes one base call, with F = C and the
   options unchanged, and returns (r/(2 pi), w) for the base's (r, w);
   w2C.__call__(w, **kwargs) likewise returns (k 2 pi, C). *)
C6_CallForwards ==
    /\ op = "C2w.__call__" =>
          /\ Len(baseCalls) = 1
          /\ baseCalls[1].seen = [F |-> callArgs.F, kwargs |-> callArgs.kwargs]
          /\ MulPi(Mul2(ret[1])) = baseCalls[1].ret[1]
          /\ ret[2] = baseCalls[1].ret[2]
    /\ op = "w2C.__call__" =>
          /\ Len(baseCalls) = 1
          /\ baseCalls[1].seen = [F |-> callArgs.F, kwargs |-> callArgs.kwargs]
          /\ DivPi(Div2(ret[1])) = baseCalls[1].ret[1]
          /\ ret[2] = baseCalls[1].ret[2]

C6_Witness ==
    /\ op = "C2w.__call__"
    /\ "extrap" \in DOMAIN callArgs.kwargs
    /\ callArgs.kwargs["extrap"]
    /\ baseCalls[1].seen.kwargs = callArgs.kwargs
    /\ Len(ret[1]) = MaxLen

(* C7: a call on a C2w or w2C instance leaves every attribute of the
   instance as it was. *)
C7_CallLeavesSelf ==
    [][op' \in {"C2w.__call__", "w2C.__call__"} => self' = self]_vars

C7_Witness ==
    /\ op = "w2C.__call__"
    /\ self.kind = "w2C"
    /\ callArgs.F = "F2"
    /\ self.postfac = Factor(1, 0, -2, -2, 0)
    /\ self.theta = args.theta

(* C8: for every l, P2xi built with n omitted and xi2P built with the same
   l, deriv and q use the same kernel and the unmodified tilt q, both weight
   the input by x^3, and P2xi's postfac constant times xi2P's postfac constant
   times P2xi's prefac constant is exactly 1. *)
C8_InverseOrientation ==
    (op = "P2xi.__init__" /\ err = "none" /\ args.n = NoneN /\ PeerIs("xi2P")) =>
        /\ peer.self.l = self.l
        /\ peer.self.MK = self.MK
        /\ self.MK = Mellin_SphericalBesselJ(args.l, args.deriv)
        /\ baseInits[1].tilt2 = args.q2
        /\ peer.inits[1].tilt2 = args.q2
        /\ self.prefac.xe = 3
        /\ peer.self.prefac = XPow(3)
        /\ FMul(self.postfac, FMul(peer.self.postfac, FDiv(self.prefac, XPow(3)))) = One

C8_Witness ==
    /\ op = "P2xi.__init__"
    /\ err = "none"
    /\ args.n = NoneN
    /\ args.l = 3
    /\ PeerIs("xi2P")
    /\ self.postfac = NegImagUnit
    /\ peer.self.postfac = Factor(0, 1, 3, 3, 0)

(* C9: when the base constructor rejects the tilt q+n, P2xi's constructor
   ends with the base's error: the base constructor was invoked once, with
   tilt q+n, nothing after it ran (no prefac, no postfac), and the error is
   the base's own. *)
C9_BaseErrorSurfaces ==
    op = "P2xi.__init__" =>
        /\ Len(baseInits) = 1
        /\ baseInits[1].tilt2 \notin TiltLo..TiltHi =>
              /\ err = "TiltError"
              /\ self = [kind |-> "P2xi", l |-> args.l]
        /\ baseInits[1].tilt2 \in TiltLo..TiltHi => err = "none"

C9_Witness ==
    /\ op = "P2xi.__init__"
    /\ err = "TiltError"
    /\ args.n = <<0 - 1>>
    /\ baseInits[1].tilt2 = 0
    /\ "prefac" \notin DOMAIN self

(* what the base transform is configured with, apart from the conjugate grid
   the engine derives *)
Config(s) == <<s.x, s.MK, s.q2, s.kwargs, s.prefac, s.postfac>>

(* C10: for the same k, l, deriv and q, P2xi with n = 0 given and P2xi with n
   omitted get the same kernel, the same tilt q and the same prefac factor
   x^3 / (2 pi)^1.5; their postfac factors differ by i^l, so they are
   configured alike if and only if l mod 4 = 0. *)
C10_ZeroVersusOmitted ==
    (op = "P2xi.__init__" /\ err = "none" /\ args.n = NoneN
        /\ PeerIs("P2xi") /\ peer.args.n = <<0>>) =>
        /\ peer.self.MK = self.MK
        /\ peer.self.q2 = args.q2
        /\ self.q2 = args.q2
        /\ peer.self.prefac = Factor(1, 0, -3, -3, 3)
        /\ self.prefac = Factor(1, 0, -3, -3, 3)
        /\ self.postfac = FMul(IPow(args.l), peer.self.postfac)
        /\ (Config(self) = Config(peer.self)) <=> (args.l % 4 = 0)

C10_Witness ==
    /\ op = "P2xi.__init__"
    /\ err = "none"
    /\ args.n = NoneN
    /\ args.l = 2
    /\ PeerIs("P2xi")
    /\ peer.args.n = <<0>>
    /\ self.postfac = NegOne
    /\ peer.self.postfac = One
    /\ Config(self) # Config(peer.self)

====
